---- MODULE Spec2Model ----
(***************************************************************************)
(* Model of ANIE/create_icon_set.py: the icon renderer create_anie_icon    *)
(* and the icon-set builder create_icon_set.                               *)
(*                                                                         *)
(* Text is modelled as a sequence of one-character strings, so that the    *)
(* f-string formatting, str.split and int() of the source are computed     *)
(* and not assumed.  Glyph placement is not modelled: it depends on the    *)
(* font metrics returned by ImageDraw.textbbox.                            *)
(***************************************************************************)
EXTENDS Integers, Sequences, FiniteSets, TLC

\* ------------------------------------------------------------------ bounds
MaxRuns == 2
MaxSize == 1024

\* ------------------------------------------------------------ text helpers
DigitChars == <<"0", "1", "2", "3", "4", "5", "6", "7", "8", "9">>

RECURSIVE IntToStr(_)
\* str(n) / f"{n}" for a non-negative integer
IntToStr(n) ==
    IF n < 10 THEN <<DigitChars[n + 1]>>
    ELSE IntToStr(n \div 10) \o <<DigitChars[(n % 10) + 1]>>

DigitVal(c) == CHOOSE d \in 0..9 : DigitChars[d + 1] = c

RECURSIVE StrToInt(_)
\* int(s) for a non-empty string of decimal digits
StrToInt(s) ==
    IF Len(s) = 1 THEN DigitVal(s[1])
    ELSE 10 * StrToInt(SubSeq(s, 1, Len(s) - 1)) + DigitVal(s[Len(s)])

\* s.split(sep)[0]: the text before the first sep, all of s when there is none
SplitFirst(s, sep) ==
    IF \E i \in 1..Len(s) : s[i] = sep
    THEN LET k == CHOOSE i \in 1..Len(s) :
                     s[i] = sep /\ \A j \in 1..(i - 1) : s[j] # sep
         IN  SubSeq(s, 1, k - 1)
    ELSE s

\* ------------------------------------------------------- create_anie_icon
ReferenceSize == 1024

\* scale_factor = size / 1024, kept as an exact fraction (a division by a
\* power of two is exact in binary floating point for these magnitudes)
ScaleFactor(S) == [num |-> S, den |-> ReferenceSize]

\* variant: round(c * scale_factor) in place of int(...)
ScaledRounded(c, sf) == (2 * c * sf.num + sf.den) \div (2 * sf.den)

\* int(c * scale_factor): truncation toward zero of a non-negative product
Scaled(c, sf) == (c * sf.num) \div sf.den

\* variant: the two truetype() calls in consecutive, un-nested try blocks
FontAttemptsSequential(pLoads, sLoads) ==
    IF sLoads THEN <<"primary", "secondary">>
    ELSE <<"primary", "secondary", "default">>

\* the try/except chain of lines 20-27: the loaders attempted, in order
FontAttempts(pLoads, sLoads) ==
    IF pLoads THEN <<"primary">>
    ELSE IF sLoads THEN <<"primary", "secondary">>
    ELSE <<"primary", "secondary", "default">>

\* the font bound to `font` when the chain is left
ResolveFont(pLoads, sLoads) ==
    LET a == FontAttempts(pLoads, sLoads) IN a[Len(a)]

colors == [A |-> <<255, 255, 255>>, N |-> <<0, 144, 255>>,
           I |-> <<255, 255, 255>>, E |-> <<0, 144, 255>>]

create_anie_icon(S, pLoads, sLoads) ==
    LET scale_factor  == ScaleFactor(S)
        inset         == Scaled(60, scale_factor)
        corner_radius == Scaled(100, scale_factor)
        font_size     == Scaled(400, scale_factor)
        spacing       == Scaled(10, scale_factor)
    IN  [dims          |-> <<S, S>>,
         inset         |-> inset,
         corner_radius |-> corner_radius,
         rect_coords   |-> <<inset, inset, S - inset, S - inset>>,
         font_size     |-> font_size,
         font          |-> ResolveFont(pLoads, sLoads),
         spacing       |-> spacing,
         shift_up      |-> Scaled(80, scale_factor),
         shift_I       |-> Scaled(15, scale_factor),
         shift_E       |-> Scaled(68, scale_factor),
         colors        |-> colors]

\* -------------------------------------------------------- create_icon_set
\* variant: the table without its last size class
icon_sizes_short ==
    << [base_size |-> <<"1", "6", "x", "1", "6">>,           scales |-> <<16, 32>>],
       [base_size |-> <<"3", "2", "x", "3", "2">>,           scales |-> <<32, 64>>],
       [base_size |-> <<"1", "2", "8", "x", "1", "2", "8">>, scales |-> <<128, 256>>],
       [base_size |-> <<"2", "5", "6", "x", "2", "5", "6">>, scales |-> <<256, 512>>] >>

icon_sizes ==
    << [base_size |-> <<"1", "6", "x", "1", "6">>,           scales |-> <<16, 32>>],
       [base_size |-> <<"3", "2", "x", "3", "2">>,           scales |-> <<32, 64>>],
       [base_size |-> <<"1", "2", "8", "x", "1", "2", "8">>, scales |-> <<128, 256>>],
       [base_size |-> <<"2", "5", "6", "x", "2", "5", "6">>, scales |-> <<256, 512>>],
       [base_size |-> <<"5", "1", "2", "x", "5", "1", "2">>, scales |-> <<512, 1024>>] >>

\* variant: f"icon_{size}.png"
FilenameNoX(sz) ==
    <<"i", "c", "o", "n", "_">> \o IntToStr(sz) \o <<".", "p", "n", "g">>

\* f"icon_{size}x{size}.png"
Filename(sz) ==
    <<"i", "c", "o", "n", "_">> \o IntToStr(sz) \o <<"x">> \o IntToStr(sz)
        \o <<".", "p", "n", "g">>

ContentsJson == <<"C", "o", "n", "t", "e", "n", "t", "s", ".", "j", "s", "o", "n">>

\* int(base_size.split("x")[0])
Width(base_size) == StrToInt(SplitFirst(base_size, "x"))

\* variant: f"{width//size}x"
ScaleLabelSwapped(sz, w) == IntToStr(w \div sz) \o <<"x">>

\* f"{size//width}x"
ScaleLabel(sz, w) == IntToStr(sz \div w) \o <<"x">>

\* the record appended to contents["images"]
ImageRecord(base_size, fname, sz, w) ==
    [size |-> base_size, idiom |-> "mac", filename |-> fname,
     scale |-> ScaleLabel(sz, w)]

info == [author |-> "xcode", version |-> 1]

NewContents == [images |-> <<>>, info |-> info]

\* variant: os.makedirs(icon_dir) with exist_ok left at its default
makedirs_strict(exists, exist_ok) ==
    IF exists THEN "FileExistsError" ELSE "ok"

\* os.makedirs(icon_dir, exist_ok=...): the exception raised, or "ok"
makedirs(exists, exist_ok) ==
    IF exists /\ ~exist_ok THEN "FileExistsError" ELSE "ok"

\* variant: json.dump(contents["images"], f)
json_dump_images(c) == [images |-> c.images]

\* json.dump(contents, f): the document, keys and list order preserved
json_dump(c) == [images |-> c.images, info |-> c.info]

\* a file system with one more (or one replaced) file
WriteFile(fs, name, data) ==
    [n \in (DOMAIN fs) \cup {name} |-> IF n = name THEN data ELSE fs[n]]

\* variant: the outer loop stops one size class early
LoopDoneEarly(c) == c >= Len(icon_sizes)

\* the loops of lines 104 and 106 are over once every size class is consumed
LoopDone(c) == c > Len(icon_sizes)

\* variant: the exception of icon.save is swallowed and the body goes on
OnSaveErrorSwallowed == "append"

\* an exception raised by icon.save is not caught: the run ends
OnSaveError == "aborted"

\* variant: contents["images"].insert(0, rec)
PrependRecord(images, rec) == <<rec>> \o images

\* contents["images"].append(rec)
AddRecord(images, rec) == Append(images, rec)

NoFiles == [n \in {} |-> 0]
NoIcon == [dims |-> <<0, 0>>]
Truncated == [truncated |-> TRUE]
Unset == [images |-> <<>>, info |-> [author |-> "", version |-> 0]]

VARIABLES
    pc,             \* position in the program
    run,            \* number of runs of create_icon_set started
    dirExists,      \* Assets.xcassets/AppIcon.appiconset exists
    files,          \* the files of the output directory: name -> content
    contents,       \* the local `contents`
    ci, si,         \* position of the two loops: size class, density
    width, size, filename, icon,   \* the locals of the loop body
    primaryLoads,   \* truetype() of the primary path succeeds
    secondaryLoads, \* truetype() of the secondary path succeeds
    fontAttempts,   \* loaders tried by the last create_anie_icon call
    error,          \* the exception that ended the run, "none" otherwise
    renderLog,      \* sizes passed to create_anie_icon in this run
    writeLog,       \* file names saved by icon.save in this run
    dumps,          \* json.dump calls of this run
    lastDone        \* the directory as the last completed run left it

vars == <<pc, run, dirExists, files, contents, ci, si, width, size, filename,
          icon, primaryLoads, secondaryLoads, fontAttempts, error, renderLog,
          writeLog, dumps, lastDone>>

env == <<primaryLoads, secondaryLoads>>
locals == <<width, size, filename, icon, fontAttempts>>

Init ==
    /\ pc = "start"
    /\ run = 0
    /\ dirExists \in BOOLEAN
    /\ files = NoFiles
    /\ contents = Unset
    /\ ci = 1 /\ si = 1
    /\ width = 0 /\ size = 0 /\ filename = <<>> /\ icon = NoIcon
    /\ primaryLoads \in BOOLEAN
    /\ secondaryLoads \in BOOLEAN
    /\ fontAttempts = <<>>
    /\ error = "none"
    /\ renderLog = <<>> /\ writeLog = <<>> /\ dumps = 0
    /\ lastDone = <<>>

\* lines 82-101: create the directory, build the empty manifest
MakeDirs ==
    /\ pc \in {"start", "done", "aborted"}
    /\ run < MaxRuns
    /\ run' = run + 1
    /\ lastDone' = IF pc = "done" THEN <<files>> ELSE lastDone
    /\ renderLog' = <<>> /\ writeLog' = <<>> /\ dumps' = 0
    /\ LET r == makedirs(dirExists, TRUE) IN
         IF r = "ok"
         THEN /\ dirExists' = TRUE
              /\ contents' = NewContents
              /\ ci' = 1 /\ si' = 1
              /\ error' = "none"
              /\ pc' = IF LoopDone(1) THEN "dump" ELSE "render"
         ELSE /\ error' = r
              /\ pc' = "aborted"
              /\ UNCHANGED <<dirExists, contents, ci, si>>
    /\ UNCHANGED <<files, locals, env>>

\* lines 104-108: loop heads, file name, render
Render ==
    /\ pc = "render"
    /\ LET class == icon_sizes[ci]
           sz    == class.scales[si]
       IN  /\ width' = Width(class.base_size)
           /\ size' = sz
           /\ filename' = Filename(sz)
           /\ icon' = create_anie_icon(sz, primaryLoads, secondaryLoads)
           /\ fontAttempts' = FontAttempts(primaryLoads, secondaryLoads)
           /\ renderLog' = Append(renderLog, sz)
    /\ pc' = "save"
    /\ UNCHANGED <<run, dirExists, files, contents, ci, si, env, error,
                   writeLog, dumps, lastDone>>

\* line 109: icon.save(...) returns
Save ==
    /\ pc = "save"
    /\ files' = WriteFile(files, filename, icon)
    /\ writeLog' = Append(writeLog, filename)
    /\ pc' = "append"
    /\ UNCHANGED <<run, dirExists, contents, ci, si, locals, env, error,
                   renderLog, dumps, lastDone>>

\* line 109: icon.save(...) raises.  The file is untouched when it could not
\* be opened; a file that existed and was opened is left truncated.
SaveFails ==
    /\ pc = "save"
    /\ \/ files' = files
       \/ /\ filename \in DOMAIN files
          /\ files' = WriteFile(files, filename, Truncated)
    /\ error' = "OSError"
    /\ pc' = OnSaveError
    /\ UNCHANGED <<run, dirExists, contents, ci, si, locals, env, renderLog,
                   writeLog, dumps, lastDone>>

\* lines 112-117, then the loops advance
AppendRecord ==
    /\ pc = "append"
    /\ contents' = [contents EXCEPT !.images =
           AddRecord(@, ImageRecord(icon_sizes[ci].base_size, filename, size, width))]
    /\ IF si < Len(icon_sizes[ci].scales)
       THEN /\ si' = si + 1 /\ ci' = ci
            /\ pc' = "render"
       ELSE /\ si' = 1 /\ ci' = ci + 1
            /\ pc' = IF LoopDone(ci + 1) THEN "dump" ELSE "render"
    /\ UNCHANGED <<run, dirExists, files, locals, env, error, renderLog,
                   writeLog, dumps, lastDone>>

\* lines 119-123: write Contents.json, print, return
Dump ==
    /\ pc = "dump"
    /\ files' = WriteFile(files, ContentsJson, json_dump(contents))
    /\ dumps' = dumps + 1
    /\ pc' = "done"
    /\ UNCHANGED <<run, dirExists, contents, ci, si, locals, env, error,
                   renderLog, writeLog, lastDone>>

Next == MakeDirs \/ Render \/ Save \/ SaveFails \/ AppendRecord \/ Dump

Spec == Init /\ [][Next]_vars

\* ------------------------------------------ create_anie_icon on any size
InitIcon ==
    /\ pc = "icon_call"
    /\ size \in 1..MaxSize
    /\ primaryLoads \in BOOLEAN
    /\ secondaryLoads \in BOOLEAN
    /\ run = 0 /\ dirExists = FALSE /\ files = NoFiles /\ contents = Unset
    /\ ci = 1 /\ si = 1 /\ width = 0 /\ filename = <<>> /\ icon = NoIcon
    /\ fontAttempts = <<>> /\ error = "none"
    /\ renderLog = <<>> /\ writeLog = <<>> /\ dumps = 0 /\ lastDone = <<>>

CallIcon ==
    /\ pc = "icon_call"
    /\ icon' = create_anie_icon(size, primaryLoads, secondaryLoads)
    /\ fontAttempts' = FontAttempts(primaryLoads, secondaryLoads)
    /\ pc' = "icon_ret"
    /\ UNCHANGED <<run, dirExists, files, contents, ci, si, width, size,
                   filename, env, error, renderLog, writeLog, dumps, lastDone>>

NextIcon == CallIcon

SpecIcon == InitIcon /\ [][NextIcon]_vars

\* ================================================================ claims
ImageFiles == (DOMAIN files) \ {ContentsJson}

Images == contents.images

\* the fixed table, written out: pixel dimension and class width per variant
ExpectedPixels == <<16, 32, 32, 64, 128, 256, 256, 512, 512, 1024>>
ExpectedWidths == <<16, 16, 32, 32, 128, 128, 256, 256, 512, 512>>

Name16   == <<"i", "c", "o", "n", "_", "1", "6", "x", "1", "6", ".", "p", "n", "g">>
Name32   == <<"i", "c", "o", "n", "_", "3", "2", "x", "3", "2", ".", "p", "n", "g">>
Name64   == <<"i", "c", "o", "n", "_", "6", "4", "x", "6", "4", ".", "p", "n", "g">>
Name128  == <<"i", "c", "o", "n", "_", "1", "2", "8", "x", "1", "2", "8", ".", "p", "n", "g">>
Name256  == <<"i", "c", "o", "n", "_", "2", "5", "6", "x", "2", "5", "6", ".", "p", "n", "g">>
Name512  == <<"i", "c", "o", "n", "_", "5", "1", "2", "x", "5", "1", "2", ".", "p", "n", "g">>
Name1024 == <<"i", "c", "o", "n", "_", "1", "0", "2", "4", "x", "1", "0", "2", "4", ".", "p", "n", "g">>

ExpectedNames == {Name16, Name32, Name64, Name128, Name256, Name512, Name1024}
ExpectedNameOf == <<Name16, Name32, Name32, Name64, Name128, Name256, Name256,
                    Name512, Name512, Name1024>>

ClassName(w) == IntToStr(w) \o <<"x">> \o IntToStr(w)

\* the pixel dimension N read back from a file name icon_NxN.png
PixelsOf(fname) == StrToInt(SplitFirst(SubSeq(fname, 6, Len(fname)), "x"))

IsPrefix(s, t) == Len(s) <= Len(t) /\ SubSeq(t, 1, Len(s)) = s

\* C1, as stated: a complete run leaves exactly 10 image files in the
\* output directory.
C1_TenImageFiles == pc = "done" => Cardinality(ImageFiles) = 10

\* C1, amended: a complete run performs exactly 10 image saves, one per
\* size-class/density pair, and they leave exactly 7 distinct image files,
\* because the pixel dimensions 32, 256 and 512 each occur in two classes.
C1_TenSavesSevenFiles ==
    pc = "done" => /\ Len(writeLog) = 10
                   /\ Cardinality(ImageFiles) = 7

C1_Witness ==
    pc = "done" /\ Len(writeLog) = 10 /\ Cardinality(ImageFiles) = 7

\* C2: when create_icon_set finishes the manifest holds exactly 10 records
\* in the order of the fixed table (classes 16, 32, 128, 256, 512; 1x before
\* 2x inside each class), and between the start of a run and its end the
\* record list only ever grows at its tail.
C2_ManifestOrder ==
    /\ [](pc = "done" =>
            /\ Len(Images) = 10
            /\ \A k \in 1..10 :
                 /\ Images[k].size = ClassName(ExpectedWidths[k])
                 /\ Images[k].filename = ExpectedNameOf[k]
                 /\ PixelsOf(Images[k].filename) = ExpectedPixels[k]
                 /\ (k % 2 = 1 => PixelsOf(Images[k].filename)
                                     < PixelsOf(Images[k + 1].filename)))
    /\ [][run' = run => IsPrefix(Images, Images')]_vars

C2_Witness ==
    /\ pc = "done"
    /\ Len(Images) = 10
    /\ Images[1].size = <<"1", "6", "x", "1", "6">>
    /\ Images[10].filename = Name1024

\* C3: after create_icon_set completes the image files of the output
\* directory are exactly icon_NxN.png for N in {16, 32, 64, 128, 256, 512,
\* 1024}, and every file name recorded in the manifest is one of them.
C3_FileSet ==
    pc = "done" =>
        /\ ImageFiles = ExpectedNames
        /\ \A k \in 1..Len(Images) : Images[k].filename \in ExpectedNames
        /\ \A k \in 1..Len(files[ContentsJson].images) :
               files[ContentsJson].images[k].filename \in ExpectedNames

C3_Witness ==
    pc = "done" /\ Name64 \in ImageFiles /\ Len(Images) = 10

\* C4: every manifest record with size class WxW and file icon_NxN.png has
\* scale "<N/W>x", W divides N, and the scale is "1x" for the first and "2x"
\* for the second dimension of each class.
C4_ScaleExact ==
    \A k \in 1..Len(Images) :
        LET rec == Images[k]
            N   == PixelsOf(rec.filename)
            W   == StrToInt(SplitFirst(rec.size, "x"))
        IN  /\ N % W = 0
            /\ rec.scale = IntToStr(N \div W) \o <<"x">>
            /\ rec.scale = (IF k % 2 = 1 THEN <<"1", "x">> ELSE <<"2", "x">>)

C4_Witness ==
    /\ Len(Images) >= 4
    /\ Images[3].size = <<"3", "2", "x", "3", "2">>
    /\ Images[3].scale = <<"1", "x">>
    /\ Images[4].filename = Name64
    /\ Images[4].scale = <<"2", "x">>

\* C5, as stated: for every canvas size S > 0 the scaled constants equal
\* 60*S/1024, 100*S/1024, 400*S/1024 and 10*S/1024 exactly, int() losing
\* nothing.
C5_ExactlyProportional ==
    pc = "icon_ret" =>
        /\ 1024 * icon.inset = 60 * size
        /\ 1024 * icon.corner_radius = 100 * size
        /\ 1024 * icon.font_size = 400 * size
        /\ 1024 * icon.spacing = 10 * size

\* v is q truncated to an integer, q being num/1024
IsFloorOf(v, num) == 1024 * v <= num /\ num < 1024 * (v + 1)

\* C5, amended: for every canvas size S > 0 each scaled constant is the
\* proportional value truncated to an integer (inset = floor(60*S/1024),
\* corner radius = floor(100*S/1024), font size = floor(400*S/1024),
\* spacing = floor(10*S/1024)); all four are exactly proportional precisely
\* when S is a multiple of 512 (at S=512: 30, 50, 200, 5).
C5_TruncatedProportional ==
    pc = "icon_ret" =>
        /\ IsFloorOf(icon.inset, 60 * size)
        /\ IsFloorOf(icon.corner_radius, 100 * size)
        /\ IsFloorOf(icon.font_size, 400 * size)
        /\ IsFloorOf(icon.spacing, 10 * size)
        /\ (size % 512 = 0 <=>
               /\ 1024 * icon.inset = 60 * size
               /\ 1024 * icon.corner_radius = 100 * size
               /\ 1024 * icon.font_size = 400 * size
               /\ 1024 * icon.spacing = 10 * size)

C5_Witness ==
    /\ pc = "icon_ret"
    /\ size = 512
    /\ icon.inset = 30 /\ icon.corner_radius = 50
    /\ icon.font_size = 200 /\ icon.spacing = 5

\* C6: a run of create_icon_set against the directory left by an earlier
\* run is never ended by the directory already existing, and when it
\* completes the directory holds the same files with the same content, and
\* the same manifest, as the earlier completed run left (font availability
\* unchanged).
C6_RerunIdempotent ==
    /\ error # "FileExistsError"
    /\ (pc = "done" /\ lastDone # <<>>) => files = lastDone[1]

C6_Witness ==
    /\ pc = "done"
    /\ run = 2
    /\ lastDone # <<>>
    /\ files = lastDone[1]
    /\ Cardinality(DOMAIN files) = 8

FontOrder == <<"primary", "secondary", "default">>

Attempted(f) == \E i \in 1..Len(fontAttempts) : fontAttempts[i] = f

\* C7: font resolution tries primary, secondary, default in that order; the
\* secondary path is attempted only if the primary load failed and the
\* default only if both failed; the first candidate that loads is the font
\* used, and a font is always chosen.
C7_FontFallbackOrder ==
    fontAttempts # <<>> =>
        /\ IsPrefix(fontAttempts, FontOrder)
        /\ icon.font = fontAttempts[Len(fontAttempts)]
        /\ icon.font \in {"primary", "secondary", "default"}
        /\ Attempted("secondary") => ~primaryLoads
        /\ Attempted("default") => (~primaryLoads /\ ~secondaryLoads)
        /\ icon.font = "primary" => primaryLoads
        /\ icon.font = "secondary" => secondaryLoads

C7_Witness ==
    /\ pc = "save"
    /\ ~primaryLoads /\ secondaryLoads
    /\ fontAttempts = <<"primary", "secondary">>
    /\ icon.font = "secondary"

\* number of positions of sequence s holding x
Count(s, x) == Cardinality({i \in 1..Len(s) : s[i] = x})

RecordsNaming(x) == Cardinality({i \in 1..Len(Images) : Images[i].filename = x})

\* C8, as stated: each variant is rendered once, its output file is written
\* exactly once and referenced by exactly one manifest record.
C8_FileWrittenOnce ==
    pc = "done" =>
        /\ Len(renderLog) = 10
        /\ \A k \in 1..Len(writeLog) :
              /\ Count(writeLog, writeLog[k]) = 1
              /\ RecordsNaming(writeLog[k]) = 1

TwiceNames == {Name32, Name256, Name512}

\* C8, amended: each variant of the table is rendered exactly once, saved
\* by exactly one save and described by exactly one manifest record (the
\* k-th record names the file of the k-th save); the files icon_32x32.png,
\* icon_256x256.png and icon_512x512.png each belong to two variants, so
\* each is written twice and named by two records, every other file once.
C8_VariantOnce ==
    /\ Len(renderLog) <= 10
    /\ Len(writeLog) <= Len(renderLog)
    /\ pc = "done" =>
          /\ renderLog = ExpectedPixels
          /\ writeLog = ExpectedNameOf
          /\ \A k \in 1..10 : Images[k].filename = writeLog[k]
          /\ \A n \in ExpectedNames :
                /\ Count(writeLog, n) = (IF n \in TwiceNames THEN 2 ELSE 1)
                /\ RecordsNaming(n) = Count(writeLog, n)

C8_Witness ==
    /\ pc = "done"
    /\ Count(writeLog, Name32) = 2
    /\ RecordsNaming(Name32) = 2
    /\ Count(writeLog, Name16) = 1

\* C9: Contents.json is written at most once per run and exactly once in a
\* completed run, only when all 10 variants have been rendered, saved and
\* appended; the file then holds the info block {author: "xcode",
\* version: 1} and all the records.
C9_ManifestWrittenLast ==
    /\ [](/\ dumps <= 1
          /\ dumps = 1 => pc = "done"
          /\ pc = "done" =>
                /\ dumps = 1
                /\ files[ContentsJson] =
                      [images |-> Images,
                       info |-> [author |-> "xcode", version |-> 1]]
                /\ Len(files[ContentsJson].images) = 10)
    /\ [][dumps' > dumps =>
             /\ Len(renderLog) = 10
             /\ Len(writeLog) = 10
             /\ Len(Images) = 10]_vars

C9_Witness ==
    /\ pc = "done"
    /\ dumps = 1
    /\ ContentsJson \in DOMAIN files
    /\ Len(files[ContentsJson].images) = 10
    /\ files[ContentsJson].info.author = "xcode"

====
